---- MODULE Spec2Model ----
(***************************************************************************)
(* Golf handicap app (src/script.js): validation, WHS calculation and the  *)
(* localStorage contract, as a state machine.  script.js holds two         *)
(* immediately-invoked blocks: the refactored one (ValidationService,      *)
(* StorageService, WHSService, App; lines 7-618) and the earlier one       *)
(* (ladeRunden, speichereRunden, handleSubmit, ...; lines 626-883).  Both  *)
(* run when the script loads and both register their listeners on the     *)
(* same form and the same buttons.                                         *)
(*                                                                         *)
(* JavaScript numbers are IEEE-754 doubles.  The arithmetic of the WHS     *)
(* formulas is modelled on exact dyadic values m * 2^e (m a bit sequence), *)
(* each operation rounded to 53 significant bits, ties to even.            *)
(***************************************************************************)
EXTENDS Integers, Sequences, FiniteSets, TLC

VARIABLES
  store,   \* localStorage["golf-handicap-rounds"]: the persisted text
  full,    \* the storage quota is used up: setItem throws
  env,     \* the page: where it loads the script, the text the store held
           \* when it was opened, the listeners of the form in their order
  now,     \* milliseconds on the clock at the last Date.now()
  ui,      \* #handicap-wert and the cards of #runden-liste
  last,    \* the last user action: what it was given and what it saved
  probe    \* a call of one of the pure functions, see below

appVars == <<store, full, env, now, ui, last>>

vars == <<store, full, env, now, ui, last, probe>>

-----------------------------------------------------------------------------
(* IEEE-754 double arithmetic.  A value is [s, m, e]: sign s (1 negative), *)
(* mantissa m as a little-endian bit sequence (m[1] the lowest bit, odd or *)
(* empty for zero) and the exponent e of the lowest bit.                   *)

\* the element of a singleton set.  A value that a definition uses several
\* times is bound through it, The({e(v) : v \in {value}}), and so is
\* evaluated once
The(S) == CHOOSE v \in S : TRUE

RECURSIVE Pow2(_)
Pow2(n) == IF n = 0 THEN 1 ELSE 2 * Pow2(n - 1)

RECURSIVE Pow10(_)
Pow10(n) == IF n = 0 THEN 1 ELSE 10 * Pow10(n - 1)

Abs(n) == IF n < 0 THEN -n ELSE n

Min(a, b) == IF a < b THEN a ELSE b

Max(a, b) == IF a < b THEN b ELSE a

RECURSIVE NatBits(_)
NatBits(n) == IF n = 0 THEN <<>> ELSE <<n % 2>> \o NatBits(n \div 2)

RECURSIVE BitsNat(_)
BitsNat(b) == IF b = <<>> THEN 0 ELSE b[1] + 2 * BitsNat(Tail(b))

\* b without its high zero bits
TrimTop(b) ==
  LET nz == {i \in 1..Len(b) : b[i] # 0}
  IN IF nz = {} THEN <<>>
     ELSE SubSeq(b, 1, CHOOSE i \in nz : \A j \in nz : j <= i)

\* the number of low zero bits of a non-zero b
LowZeros(b) ==
  LET nz == {i \in 1..Len(b) : b[i] # 0}
  IN (CHOOSE i \in nz : \A j \in nz : i <= j) - 1

\* the i-th digit, 0 beyond the ends
Bit(b, i) == IF i >= 1 /\ i <= Len(b) THEN b[i] ELSE 0

\* digits lo..hi (any integers, lowest first) to bits with carry c coming in:
\* <<bits, carry out>>; halves are joined so that the recursion stays shallow,
\* the lower half evaluated before the upper one is entered
RECURSIVE CarrySeg(_, _, _, _)
CarrySeg(d, lo, hi, c) ==
  IF lo = hi THEN << <<(d[lo] + c) % 2>>, (d[lo] + c) \div 2 >>
  ELSE LET mid == (lo + hi) \div 2
           L == CarrySeg(d, lo, mid, c)
           H == CarrySeg(d, mid + 1, hi, L[2])
       IN IF L[2] = L[2] THEN <<L[1] \o H[1], H[2]>> ELSE L

\* digits to bits, carrying or borrowing upward; the value is not negative
Carry(d, c) ==
  IF Len(d) = 0 THEN NatBits(c)
  ELSE LET r == CarrySeg(d, 1, Len(d), c) IN r[1] \o NatBits(r[2])

FZero == [s |-> 0, m |-> <<>>, e |-> 0]

\* canonical form: no high zero bits, no low zero bits, zero is FZero
Canon(s, bits, e) ==
  LET t == TrimTop(bits)
  IN IF t = <<>> THEN FZero
     ELSE [s |-> s, m |-> SubSeq(t, LowZeros(t) + 1, Len(t)),
           e |-> e + LowZeros(t)]

FromInt(n) == Canon(IF n < 0 THEN 1 ELSE 0, NatBits(Abs(n)), 0)

Zeros(n) == [i \in 1..n |-> 0]

\* round to nearest, ties to even, at 53 significant bits
Round53(x) ==
  LET L == Len(x.m)
      s == L - 53
      kept == SubSeq(x.m, s + 1, L)
      guard == x.m[s]
      sticky == \E i \in 1..(s - 1) : x.m[i] = 1
      up == guard = 1 /\ (sticky \/ kept[1] = 1)
  IN IF L <= 53 THEN x
     ELSE Canon(x.s, Carry(kept, IF up THEN 1 ELSE 0), x.e + s)

\* mantissa of x with its lowest bit moved to exponent e (e <= x.e)
Shifted(x, e) == Zeros(x.e - e) \o x.m

\* -1, 0, 1 as a <, =, > b for bit sequences without high zeros
CmpBits(a, b) ==
  LET df == {i \in 1..Len(a) : a[i] # Bit(b, i)}
      top == CHOOSE i \in df : \A j \in df : j <= i
  IN IF Len(a) # Len(b) THEN (IF Len(a) < Len(b) THEN -1 ELSE 1)
     ELSE IF df = {} THEN 0
     ELSE IF a[top] < b[top] THEN -1 ELSE 1

\* the exact sum
FAddX(x, y) ==
  IF x.m = <<>> THEN y
  ELSE IF y.m = <<>> THEN x
  ELSE
    LET e == Min(x.e, y.e)
        a == Shifted(x, e)
        b == Shifted(y, e)
        n == Max(Len(a), Len(b))
        c == CmpBits(a, b)
    IN IF x.s = y.s
         THEN Canon(x.s, Carry([i \in 1..n |-> Bit(a, i) + Bit(b, i)], 0), e)
       ELSE IF c = 0 THEN FZero
       ELSE IF c > 0
         THEN Canon(x.s, Carry([i \in 1..n |-> Bit(a, i) - Bit(b, i)], 0), e)
       ELSE Canon(y.s, Carry([i \in 1..n |-> Bit(b, i) - Bit(a, i)], 0), e)

FNeg(x) == IF x.m = <<>> THEN x ELSE [x EXCEPT !.s = 1 - x.s]

FAdd(x, y) == Round53(FAddX(x, y))

FSub(x, y) == Round53(FAddX(x, FNeg(y)))

FMul(x, y) ==
  IF x.m = <<>> \/ y.m = <<>> THEN FZero
  ELSE
    LET n == Len(x.m) + Len(y.m)
        conv == [k \in 1..n |->
                  Cardinality({i \in 1..Len(x.m) :
                     x.m[i] = 1 /\ Bit(y.m, k + 1 - i) = 1})]
    IN Round53(Canon((x.s + y.s) % 2, Carry(conv, 0), x.e + y.e))

\* long division of bits hi..lo of b (highest first) by a small positive
\* integer d, with remainder r coming in: <<quotient bits, remainder>>
RECURSIVE DivSeg(_, _, _, _, _)
DivSeg(b, d, hi, lo, r) ==
  IF hi = lo
    THEN LET t == 2 * r + b[hi]
         IN << <<IF t >= d THEN 1 ELSE 0>>, IF t >= d THEN t - d ELSE t >>
  ELSE LET mid == (lo + hi) \div 2
           H == DivSeg(b, d, hi, mid + 1, r)
           L == DivSeg(b, d, mid, lo, H[2])
       IN IF H[2] = H[2] THEN <<L[1] \o H[1], L[2]>> ELSE H

\* x / d for a positive integer d below 2^20: the quotient carried to at
\* least 60 bits, a sticky bit below it for the remainder, then rounded
FDivInt(x, d) ==
  IF x.m = <<>> THEN FZero
  ELSE
    LET q == DivSeg(Zeros(80) \o x.m, d, 80 + Len(x.m), 1, 0)
        st == IF q[2] = 0 THEN 0 ELSE 1
    IN Round53(Canon(x.s, <<st>> \o q[1], x.e - 80 - 1))

\* Math.round: the nearest integer, ties toward +Infinity: floor(x + 1/2)
MathRound(x) ==
  The({LET frac == IF y.e >= 0 THEN <<>> ELSE SubSeq(y.m, 1, Min(-y.e, Len(y.m)))
           int == IF y.e >= 0 THEN BitsNat(Zeros(y.e) \o y.m)
                  ELSE BitsNat(SubSeq(y.m, Min(-y.e, Len(y.m)) + 1, Len(y.m)))
           hasFrac == \E i \in 1..Len(frac) : frac[i] = 1
       IN IF y.s = 0 THEN int
          ELSE IF hasFrac THEN -(int + 1) ELSE -int
         : y \in {FAddX(x, [s |-> 0, m |-> <<1>>, e |-> -1])}})

-----------------------------------------------------------------------------
(* JavaScript values of the model, all of one shape [k, n, sc, s]:        *)
(* a number is NaN or the double nearest to the decimal n / 10^sc (what    *)
(* parseFloat and a number literal yield); a string is its sequence s of   *)
(* characters; null; undefined (also: a property an object does not have). *)

NaN == [k |-> "nan", n |-> 0, sc |-> 0, s |-> <<>>]

RECURSIVE Num(_, _)
Num(n, sc) ==
  IF sc > 0 /\ n % 10 = 0 THEN Num(n \div 10, sc - 1)
  ELSE [k |-> "num", n |-> n, sc |-> sc, s |-> <<>>]

Null == [k |-> "null", n |-> 0, sc |-> 0, s |-> <<>>]

Str(chars) == [k |-> "string", n |-> 0, sc |-> 0, s |-> chars]

Undefined == [k |-> "undefined", n |-> 0, sc |-> 0, s |-> <<>>]

DigitChars == <<"0", "1", "2", "3", "4", "5", "6", "7", "8", "9">>

IsDigit(c) == \E d \in 1..10 : DigitChars[d] = c

DigitOf(c) == (CHOOSE d \in 1..10 : DigitChars[d] = c) - 1

\* String(n) for a whole number n >= 0
RECURSIVE DigitsOf(_)
DigitsOf(n) ==
  IF n < 10 THEN <<DigitChars[n + 1]>>
  ELSE Append(DigitsOf(n \div 10), DigitChars[(n % 10) + 1])

\* a round object
Runde(id, date, score, courseRating, slope, differential) ==
  [t |-> "obj", id |-> id, date |-> date, score |-> score,
   courseRating |-> courseRating, slope |-> slope,
   differential |-> differential]

ToF(x) == IF x.sc = 0 THEN FromInt(x.n) ELSE FDivInt(FromInt(x.n), Pow10(x.sc))

\* x < y, x <= y on decimals
NumLt(x, y) == x.n * Pow10(y.sc) < y.n * Pow10(x.sc)

NumLe(x, y) == x.n * Pow10(y.sc) <= y.n * Pow10(x.sc)

-----------------------------------------------------------------------------
(* parseFloat on the characters the model's inputs are written with:       *)
(* leading white space is skipped, then an optional sign, digits and an    *)
(* optional fraction are read; what follows is ignored; NaN when no digit  *)
(* was read.  (Exponents and "Infinity" are not among the inputs.)         *)

RECURSIVE SkipSpaces(_)
SkipSpaces(s) == IF s # <<>> /\ s[1] = " " THEN SkipSpaces(Tail(s)) ELSE s

\* the number of leading digits of s
RECURSIVE DigitRun(_)
DigitRun(s) == IF s # <<>> /\ IsDigit(s[1]) THEN 1 + DigitRun(Tail(s)) ELSE 0

RECURSIVE DigitsValue(_)
DigitsValue(s) ==
  IF s = <<>> THEN 0 ELSE 10 * DigitsValue(SubSeq(s, 1, Len(s) - 1)) + DigitOf(s[Len(s)])

parseFloat(str) ==
  The({LET neg == t # <<>> /\ t[1] = "-"
           u == IF t # <<>> /\ t[1] \in {"-", "+"} THEN Tail(t) ELSE t
           ni == DigitRun(u)
           v == SubSeq(u, ni + 1, Len(u))
           nf == IF v # <<>> /\ v[1] = "." THEN DigitRun(Tail(v)) ELSE 0
           mant == DigitsValue(SubSeq(u, 1, ni) \o SubSeq(v, 2, nf + 1))
       IN IF ni + nf = 0 THEN NaN
          ELSE Num(IF neg THEN -mant ELSE mant, nf)
         : t \in {SkipSpaces(str)}})

\* typeof x === "string" ? parseFloat(x) : Number(x), for the values passed
ToNumber(x) ==
  IF x.k = "string" THEN parseFloat(x.s)
  ELSE IF x.k = "num" THEN x
  ELSE IF x.k = "null" THEN Num(0, 0)
  ELSE NaN

-----------------------------------------------------------------------------
(* ValidationService.validiereScore / validiereCourseRating /              *)
(* validiereSlope (63-119)                                                 *)

Fail(error) == [valid |-> FALSE, error |-> error, value |-> Null]

Ok(value) == [valid |-> TRUE, error |-> Null, value |-> value]

IsBlank(x) == x = Str(<<>>) \/ x = Null \/ x = Undefined

\* validiereScore without the whole-number check
validiereScore_NoFloor(score) ==
  The({IF IsBlank(score) THEN Fail("Bitte einen Brutto-Score eingeben.")
        ELSE IF num.k # "num" THEN Fail("Brutto-Score muss eine gueltige Zahl sein.")
        ELSE IF NumLt(num, Num(1, 0)) \/ NumLt(Num(200, 0), num)
          THEN Fail("Brutto-Score muss zwischen 1 und 200 liegen.")
        ELSE Ok(num)
         : num \in {ToNumber(score)}})

validiereScore(score) ==
  The({IF IsBlank(score) THEN Fail("Bitte einen Brutto-Score eingeben.")
        ELSE IF num.k # "num" THEN Fail("Brutto-Score muss eine gueltige Zahl sein.")
        ELSE IF NumLt(num, Num(1, 0)) \/ NumLt(Num(200, 0), num)
          THEN Fail("Brutto-Score muss zwischen 1 und 200 liegen.")
        ELSE IF num.sc # 0 THEN Fail("Brutto-Score muss eine ganze Zahl sein.")
        ELSE Ok(num)
         : num \in {ToNumber(score)}})

validiereCourseRating(cr) ==
  The({IF IsBlank(cr) THEN Fail("Bitte ein Course Rating eingeben.")
        ELSE IF num.k # "num" THEN Fail("Course Rating muss eine gueltige Zahl sein.")
        ELSE IF NumLt(num, Num(50, 0)) \/ NumLt(Num(80, 0), num)
          THEN Fail("Course Rating muss zwischen 50 und 80 liegen.")
        ELSE Ok(num)
         : num \in {ToNumber(cr)}})

validiereSlope(slope) ==
  The({IF IsBlank(slope) THEN Fail("Bitte ein Slope Rating eingeben.")
        ELSE IF num.k # "num" THEN Fail("Slope Rating muss eine gueltige Zahl sein.")
        ELSE IF NumLt(num, Num(55, 0)) \/ NumLt(Num(155, 0), num)
          THEN Fail("Slope Rating muss zwischen 55 und 155 liegen.")
        ELSE IF num.sc # 0 THEN Fail("Slope Rating muss eine ganze Zahl sein.")
        ELSE Ok(num)
         : num \in {ToNumber(slope)}})

-----------------------------------------------------------------------------
(* JSON.  The persisted text is absent (getItem returns null), not JSON,   *)
(* JSON that is no array, or an array; each element of an array is the     *)
(* text of an object, a list of <<key, token>> members in written order,   *)
(* or of something that is no object.  A number token is its digits.       *)

Fields == <<"id", "date", "score", "courseRating", "slope", "differential">>

Absent == [kind |-> "absent", items |-> <<>>]

NotJson == [kind |-> "invalid", items |-> <<>>]

NonArray == [kind |-> "nonarray", items |-> <<>>]

ArrayText(items) == [kind |-> "array", items |-> items]

NullText == [ik |-> "null", members |-> <<>>]

ObjText(members) == [ik |-> "obj", members |-> members]

Token(tk, chars) == [tk |-> tk, s |-> chars]

\* Number::toString for a decimal: sign, whole part, fraction
NumberToString(x) ==
  LET a == Abs(x.n)
      whole == DigitsOf(a \div Pow10(x.sc))
      frac == [i \in 1..x.sc |-> DigitChars[((a \div Pow10(x.sc - i)) % 10) + 1]]
  IN (IF x.n < 0 THEN <<"-">> ELSE <<>>) \o whole
       \o (IF x.sc > 0 THEN <<".">> \o frac ELSE <<>>)

\* the JSON text of a value: NaN and null are written null
ValueToken(v) ==
  IF v.k = "num" THEN Token("num", NumberToString(v))
  ELSE IF v.k = "string" THEN Token("str", v.s)
  ELSE Token("null", <<>>)

\* the members of an object: its properties that are not undefined
RECURSIVE MembersOf(_, _)
MembersOf(e, i) ==
  IF i > Len(Fields) THEN <<>>
  ELSE (IF e[Fields[i]].k = "undefined" THEN <<>>
        ELSE << <<Fields[i], ValueToken(e[Fields[i]])>> >>) \o MembersOf(e, i + 1)

EntryText(e) == IF e.t = "obj" THEN ObjText(MembersOf(e, 1)) ELSE NullText

\* JSON.stringify(runden) with an element lost
JSONstringify_DropLast(runden) ==
  ArrayText([i \in 1..(Len(runden) - 1) |-> EntryText(runden[i])])

\* JSON.stringify(runden)
JSONstringify(runden) == ArrayText([i \in 1..Len(runden) |-> EntryText(runden[i])])

TokenValue(t) ==
  IF t.tk = "num" THEN parseFloat(t.s)
  ELSE IF t.tk = "str" THEN Str(t.s)
  ELSE Null

\* the value of property key of an object text: its last member of that
\* name, undefined if there is none
Member(members, key) ==
  LET at == {i \in 1..Len(members) : members[i][1] = key}
  IN IF at = {} THEN Undefined
     ELSE TokenValue(members[CHOOSE i \in at : \A j \in at : j <= i][2])

NullEntry ==
  [t |-> "null", id |-> Undefined, date |-> Undefined, score |-> Undefined,
   courseRating |-> Undefined, slope |-> Undefined, differential |-> Undefined]

ParseEntry(it) ==
  IF it.ik # "obj" THEN NullEntry
  ELSE Runde(Member(it.members, "id"), Member(it.members, "date"),
             Member(it.members, "score"), Member(it.members, "courseRating"),
             Member(it.members, "slope"), Member(it.members, "differential"))

\* JSON.parse(raw) of an array text
JSONparse(raw) == [i \in 1..Len(raw.items) |-> ParseEntry(raw.items[i])]

-----------------------------------------------------------------------------
(* ValidationService.validiereRunde (126-140)                              *)

\* validiereRunde without the check of differential
validiereRunde_FieldsOnly(runde) ==
  IF runde.t # "obj" THEN [valid |-> FALSE, error |-> "Ungueltiges Runden-Objekt."]
  ELSE IF \E i \in 1..Len(Fields) : runde[Fields[i]].k = "undefined"
    THEN [valid |-> FALSE, error |-> "Runden-Objekt fehlt erforderliches Feld."]
  ELSE [valid |-> TRUE, error |-> ""]

validiereRunde(runde) ==
  IF runde.t # "obj" THEN [valid |-> FALSE, error |-> "Ungueltiges Runden-Objekt."]
  ELSE IF \E i \in 1..Len(Fields) : runde[Fields[i]].k = "undefined"
    THEN [valid |-> FALSE, error |-> "Runden-Objekt fehlt erforderliches Feld."]
  ELSE IF runde.differential.k # "num"
    THEN [valid |-> FALSE, error |-> "Ungueltiger Differential-Wert."]
  ELSE [valid |-> TRUE, error |-> ""]

-----------------------------------------------------------------------------
(* StorageService (152-212) and the earlier block's ladeRunden (658-667)   *)
(* and speichereRunden (673-675)                                           *)

\* the loop of ladeRunden over parsed[i..]
RECURSIVE validierte(_, _)
validierte(parsed, i) ==
  IF i > Len(parsed) THEN <<>>
  ELSE (IF validiereRunde(parsed[i]).valid THEN <<parsed[i]>> ELSE <<>>)
         \o validierte(parsed, i + 1)

\* StorageService.ladeRunden: [] for no text, for text that JSON.parse
\* throws on (caught) and for text that is no array
StorageService_ladeRunden(raw) ==
  IF raw.kind # "array" THEN <<>> ELSE validierte(JSONparse(raw), 1)

\* the earlier ladeRunden with [parsed] for a value that is no array
ladeRunden_WrapsNonArray(raw) ==
  IF raw.kind = "nonarray" THEN <<NullEntry>>
  ELSE IF raw.kind # "array" THEN <<>>
  ELSE JSONparse(raw)

\* the earlier ladeRunden: the parsed array as it is
ladeRunden(raw) == IF raw.kind # "array" THEN <<>> ELSE JSONparse(raw)

\* localStorage.setItem(key, json): <<threw, text held afterwards>>
setItem(raw, json, isFull) == IF isFull THEN <<TRUE, raw>> ELSE <<FALSE, json>>

\* StorageService.speichereRunden: the result returned and the text held
\* afterwards; a QuotaExceededError is caught
StorageService_speichereRunden(runden, raw, isFull) ==
  The({[threw |-> FALSE, success |-> ~w[1],
        error |-> IF w[1] THEN "Speicherplatz voll. Bitte alte Runden loeschen." ELSE "",
        store |-> w[2]]
         : w \in {setItem(raw, JSONstringify(runden), isFull)}})

\* the earlier speichereRunden: no try, the exception leaves the function
speichereRunden(runden, raw, isFull) ==
  The({[threw |-> w[1], success |-> ~w[1], error |-> "", store |-> w[2]]
         : w \in {setItem(raw, JSONstringify(runden), isFull)}})

\* StorageService.loescheAlle: removeItem
StorageService_loescheAlle(raw) == [success |-> TRUE, error |-> "", store |-> Absent]

-----------------------------------------------------------------------------
(* CONFIG, src/script.js:14-20 *)

MAX_ROUNDS_FOR_HANDICAP == 20

BEST_ROUNDS_COUNT == 8

\* WHS_MULTIPLIER: 0.96, in hundredths
WHS_MULTIPLIER == Num(96, 2)

CONSTANT_SLOPE == 113

-----------------------------------------------------------------------------
(* WHSService.berechneScoreDifferential (228-231) and the earlier block's  *)
(* berechneScoreDifferential (681-684), the same two statements.  The      *)
(* slope is a whole number in every input of the model.  The result        *)
(* Math.round(d * 10) / 10 is the double nearest to a number of tenths.    *)

berechneScoreDifferential(score, courseRating, slope) ==
  LET differential == FMul(FDivInt(FromInt(CONSTANT_SLOPE), slope.n),
                           FSub(ToF(score), ToF(courseRating)))
  IN Num(MathRound(FMul(differential, FromInt(10))), 1)

-----------------------------------------------------------------------------
(* WHSService.berechneHandicapIndex (238-257); the earlier block's         *)
(* berechneHandicap (692-706) is the same computation with the constants   *)
(* written out.                                                            *)

\* runden.slice(0, CONFIG.MAX_ROUNDS_FOR_HANDICAP) without the limit
letzte20_All(runden) == runden

\* runden.slice(0, CONFIG.MAX_ROUNDS_FOR_HANDICAP)
letzte20(runden) == SubSeq(runden, 1, Min(MAX_ROUNDS_FOR_HANDICAP, Len(runden)))

\* r put into the sorted s behind every element that is not greater
InsertByDifferential(r, s) ==
  LET le == {i \in 1..Len(s) : NumLe(s[i].differential, r.differential)}
      p == IF le = {} THEN 0 ELSE CHOOSE i \in le : \A j \in le : j <= i
  IN SubSeq(s, 1, p) \o <<r>> \o SubSeq(s, p + 1, Len(s))

\* the sort with the comparator reversed (b.differential - a.differential)
RECURSIVE sortiert_Descending(_)
sortiert_Descending(l) ==
  IF l = <<>> THEN <<>>
  ELSE LET rest == sortiert_Descending(SubSeq(l, 1, Len(l) - 1))
           r == l[Len(l)]
           ge == {i \in 1..Len(rest) : NumLe(r.differential, rest[i].differential)}
           p == IF ge = {} THEN 0 ELSE CHOOSE i \in ge : \A j \in ge : j <= i
       IN SubSeq(rest, 1, p) \o <<r>> \o SubSeq(rest, p + 1, Len(rest))

\* letzte20.slice().sort(function (a, b) { return a.differential -
\* b.differential; }): ascending, stable
RECURSIVE sortiert(_)
sortiert(l) ==
  IF l = <<>> THEN <<>>
  ELSE InsertByDifferential(l[Len(l)], sortiert(SubSeq(l, 1, Len(l) - 1)))

\* beste.reduce(function (acc, r) { return acc + r.differential; }, 0)
RECURSIVE summe(_)
summe(beste) ==
  IF beste = <<>> THEN FZero
  ELSE FAdd(summe(SubSeq(beste, 1, Len(beste) - 1)),
            ToF(beste[Len(beste)].differential))

berechneHandicapIndex(runden) ==
  IF Len(runden) = 0 THEN Null
  ELSE
    The({LET anzahlBeste == Min(BEST_ROUNDS_COUNT, Len(sorted))
             beste == SubSeq(sorted, 1, anzahlBeste)
             durchschnitt == FDivInt(summe(beste), anzahlBeste)
         IN Num(MathRound(FMul(FMul(durchschnitt, ToF(WHS_MULTIPLIER)), FromInt(10))), 1)
           : sorted \in {sortiert(letzte20(runden))}})

-----------------------------------------------------------------------------
(* The pure functions are exercised one call at a time: probe holds the    *)
(* function, its arguments and, once it has been called, its result; where *)
(* a second result is compared with it, more says that prev holds one.     *)

None == [k |-> "none", n |-> 0, sc |-> 0, s |-> <<>>]

Call(fn, in) ==
  [fn |-> fn, in |-> in, done |-> FALSE, out |-> None, more |-> FALSE, prev |-> None]

\* the page while one function is exercised: nothing loaded, no action
AppIdle ==
  /\ env = [page |-> "", start |-> Absent, listeners |-> <<>>]
  /\ now = 0
  /\ ui = [wert |-> <<>>, von |-> "", ids |-> <<>>]
  /\ last = [op |-> "", in |-> <<>>, before |-> Absent, saves |-> <<>>]

\* the store while a function that does not touch it is exercised
StoreIdle == store = Absent /\ full = FALSE /\ AppIdle

Return(out) ==
  /\ probe' = [probe EXCEPT !.done = TRUE, !.out = out]
  /\ UNCHANGED appVars

\* (score, course rating, slope) of the checked calls of differential
DiffInputs ==
  { <<Num(sc, 0), Num(cr, 1), Num(sl, 0)>> :
      sc \in {1, 77, 90, 95, 100, 200},
      cr \in {500, 654, 700, 720, 800},
      sl \in {55, 56, 100, 113, 120, 155} }

InitDiff == StoreIdle /\ probe \in {Call("differential", in) : in \in DiffInputs}

CallDiff ==
  /\ probe.fn = "differential" /\ ~probe.done
  /\ Return(berechneScoreDifferential(probe.in[1], probe.in[2], probe.in[3]))

NextDiff == CallDiff

SpecDiff == InitDiff /\ [][NextDiff]_vars

\* (113 / slope) * (score - courseRating) in tenths, exactly, halves up:
\* floor(x + 1/2) with x = 113 * 10 * (score - cr) / slope
ExactDifferential(score, cr, slope) ==
  LET d == Pow10(Max(score.sc, cr.sc))
      diff == score.n * (d \div Pow10(score.sc)) - cr.n * (d \div Pow10(cr.sc))
  IN Num((2 * CONSTANT_SLOPE * 10 * diff + slope.n * d) \div (2 * slope.n * d), 1)

\* C2: differential(score, courseRating, slope) is (113 / slope) * (score -
\* courseRating) rounded to one decimal place, halves rounded up, for every
\* score in [1,200], course rating in [50,80] and slope in [55,155].
C2_DifferentialRoundsHalfUp ==
  (probe.fn = "differential" /\ probe.done)
    => probe.out = ExactDifferential(probe.in[1], probe.in[2], probe.in[3])

\* the two worked examples of C2 do come out: 18.0 and 28.3
C2_Examples ==
  (probe.fn = "differential" /\ probe.done) =>
    /\ probe.in = <<Num(90, 0), Num(72, 0), Num(113, 0)>> => probe.out = Num(18, 0)
    /\ probe.in = <<Num(100, 0), Num(70, 0), Num(120, 0)>> => probe.out = Num(283, 1)

-----------------------------------------------------------------------------
(* handicap-index, one call at a time, on lists of rounds newest first.    *)
(* The first 20 rounds of a list follow one of a few patterns of           *)
(* differentials; behind them a list carries up to MaxTail further rounds. *)
(* probe.prev is the index of the list before its last change behind       *)
(* position 20.                                                            *)

MaxTail == 2

\* a stored round with the given differential in tenths
RundeMit(i, tenths) ==
  Runde(Str(DigitsOf(i)), Str(<<"2", "0", "2", "4", "-", "0", "5", "-", "0", "1">>),
        Num(90, 0), Num(72, 0), Num(113, 0), Num(tenths, 1))

HeadList(n, a, b) == [i \in 1..n |-> RundeMit(i, a + ((i * b) % 7) * 13)]

HeadLists ==
  { HeadList(n, a, b) : n \in 0..MAX_ROUNDS_FOR_HANDICAP, a \in {-25, 180},
                        b \in {1, 2, 3} }

\* differentials, in tenths, of the rounds behind position 20: one lower
\* and one higher than every differential of the first 20
TailDiffs == {-500, 900}

HcpCall(in, prev) ==
  [Call("handicap", in) EXCEPT !.more = (prev # None), !.prev = prev]

InitHcp == StoreIdle /\ probe \in {HcpCall(in, None) : in \in HeadLists}

CallHcp ==
  /\ probe.fn = "handicap" /\ ~probe.done
  /\ Return(berechneHandicapIndex(probe.in))

AddTail ==
  /\ probe.fn = "handicap" /\ probe.done
  /\ Len(probe.in) >= MAX_ROUNDS_FOR_HANDICAP
  /\ Len(probe.in) < MAX_ROUNDS_FOR_HANDICAP + MaxTail
  /\ \E d \in TailDiffs :
       probe' = HcpCall(Append(probe.in, RundeMit(Len(probe.in) + 1, d)), probe.out)
  /\ UNCHANGED appVars

ChangeTail ==
  /\ probe.fn = "handicap" /\ probe.done
  /\ \E i \in (MAX_ROUNDS_FOR_HANDICAP + 1)..Len(probe.in), d \in TailDiffs :
       /\ probe.in[i].differential # Num(d, 1)
       /\ probe' = HcpCall([probe.in EXCEPT ![i] = RundeMit(i, d)], probe.out)
  /\ UNCHANGED appVars

RemoveTail ==
  /\ probe.fn = "handicap" /\ probe.done
  /\ Len(probe.in) > MAX_ROUNDS_FOR_HANDICAP
  /\ probe' = HcpCall(SubSeq(probe.in, 1, Len(probe.in) - 1), probe.out)
  /\ UNCHANGED appVars

NextHcp == CallHcp \/ AddTail \/ ChangeTail \/ RemoveTail

SpecHcp == InitHcp /\ [][NextHcp]_vars

\* a number of tenths
Tenths(x) == x.n * Pow10(1 - x.sc)

\* the sum of the k lowest differentials (in tenths) of the list l: every
\* value below the k-th lowest value t, and t for the rest of the k
RECURSIVE SumOver(_, _)
SumOver(l, I) ==
  IF I = {} THEN 0
  ELSE LET i == CHOOSE j \in I : TRUE
       IN Tenths(l[i].differential) + SumOver(l, I \ {i})

LowestSum(l, k) ==
  LET vals == {Tenths(l[i].differential) : i \in 1..Len(l)}
      below(v) == {i \in 1..Len(l) : Tenths(l[i].differential) < v}
      upto(v) == {i \in 1..Len(l) : Tenths(l[i].differential) <= v}
      t == CHOOSE v \in vals : Cardinality(below(v)) < k /\ k <= Cardinality(upto(v))
  IN SumOver(l, below(t)) + (k - Cardinality(below(t))) * t

First20(l) == SubSeq(l, 1, Min(20, Len(l)))

\* the sliding-scale table of C1: <<count to use, adjustment in tenths>>
SlidingScale(m) ==
  IF m <= 3 THEN <<1, -20>>
  ELSE IF m <= 5 THEN <<1, 0>>
  ELSE IF m = 6 THEN <<2, -10>>
  ELSE IF m <= 8 THEN <<2, 0>>
  ELSE IF m <= 11 THEN <<3, 0>>
  ELSE IF m <= 14 THEN <<4, 0>>
  ELSE IF m <= 16 THEN <<5, 0>>
  ELSE IF m <= 18 THEN <<6, 0>>
  ELSE IF m = 19 THEN <<7, 0>>
  ELSE <<8, 0>>

HcpDone == probe.fn = "handicap" /\ probe.done /\ Len(probe.in) >= 1

C9_OnlyFirst20Count ==
  (probe.fn = "handicap" /\ probe.done /\ probe.more)
    => probe.out = probe.prev

\* C9's witness: the index of a list of 22 rounds whose 21st differential
\* is lower than all of the first 20 has been computed after a tail change
C9_Witness ==
  /\ probe.fn = "handicap" /\ probe.done /\ probe.more
  /\ Len(probe.in) = MAX_ROUNDS_FOR_HANDICAP + 2
  /\ probe.in[MAX_ROUNDS_FOR_HANDICAP + 1].differential = Num(-500, 1)
  /\ probe.out.k = "num"

-----------------------------------------------------------------------------
(* The numeric validators, one call at a time, on every string of up to    *)
(* MaxLen characters of InputChars and on null, undefined and numbers.     *)

MaxLen == 4

InputChars == {"0", "1", "2", "5", "8", ".", "-", " ", "x"}

ValInputs ==
  {Str(s) : s \in UNION {[1..n -> InputChars] : n \in 0..MaxLen}}
    \cup {Null, Undefined, NaN, Num(90, 0), Num(0, 0), Num(725, 1), Num(113, 0)}

InitVal ==
  /\ StoreIdle
  /\ probe \in {Call(fn, in) :
               fn \in {"validiereScore", "validiereCourseRating", "validiereSlope"},
               in \in ValInputs}

CallScore ==
  /\ probe.fn = "validiereScore" /\ ~probe.done
  /\ Return(validiereScore(probe.in))

CallCourseRating ==
  /\ probe.fn = "validiereCourseRating" /\ ~probe.done
  /\ Return(validiereCourseRating(probe.in))

CallSlope ==
  /\ probe.fn = "validiereSlope" /\ ~probe.done
  /\ Return(validiereSlope(probe.in))

NextVal == CallScore \/ CallCourseRating \/ CallSlope

SpecVal == InitVal /\ [][NextVal]_vars

\* the result r of a validator on input x is a success with the parsed
\* number exactly when x parses to a number in lo..hi (a whole one if
\* whole), and otherwise a failure with a message and a null value
ValidatorContract(x, r, lo, hi, whole) ==
  LET num == ToNumber(x)
      inRange == /\ num.k = "num"
                 /\ lo * Pow10(num.sc) <= num.n /\ num.n <= hi * Pow10(num.sc)
                 /\ (whole => num.sc = 0)
  IN /\ r.valid = inRange
     /\ r.valid => (r.value = num /\ r.error = Null)
     /\ ~r.valid => (r.value = Null /\ r.error \in STRING /\ r.error # "")

\* C10: each numeric validator succeeds exactly when its input parses to a
\* number in its range, and then returns that number: validate-score for
\* integers in [1,200], validate-slope for integers in [55,155],
\* validate-course-rating for real numbers in [50,80]; for every other
\* input it returns a failure with a message and a null value.
C10_NumericValidators ==
  probe.done =>
    /\ probe.fn = "validiereScore"
         => ValidatorContract(probe.in, probe.out, 1, 200, TRUE)
    /\ probe.fn = "validiereCourseRating"
         => ValidatorContract(probe.in, probe.out, 50, 80, FALSE)
    /\ probe.fn = "validiereSlope"
         => ValidatorContract(probe.in, probe.out, 55, 155, TRUE)

\* C10's witness: validate-slope has refused "55.5", a number in range that
\* is not whole
C10_Witness ==
  /\ probe.fn = "validiereSlope" /\ probe.done
  /\ probe.in = Str(<<"5", "5", ".", "5">>)
  /\ ~probe.out.valid

-----------------------------------------------------------------------------
(* StorageService.ladeRunden and speichereRunden, one call at a time: on   *)
(* persisted texts of up to MaxItems elements, valid rounds and entries    *)
(* that are not, and on lists of up to MaxItems valid round objects.       *)

MaxItems == 2

Datum1 == Str(<<"2", "0", "2", "4", "-", "0", "5", "-", "0", "1">>)

Datum2 == Str(<<"2", "0", "2", "4", "-", "0", "6", "-", "1", "5">>)

RundeA == Runde(Str(DigitsOf(7)), Datum1, Num(90, 0), Num(72, 0), Num(113, 0), Num(18, 0))

RundeB == Runde(Str(DigitsOf(12)), Datum2, Num(68, 0), Num(705, 1), Num(120, 0), Num(-24, 1))

\* the identifier of RundeA once more
RundeC == Runde(Str(DigitsOf(7)), Datum1, Num(100, 0), Num(70, 0), Num(120, 0), Num(283, 1))

ValidRounds == {RundeA, RundeB, RundeC}

\* element texts that are no valid round: null, a round without slope, a
\* round whose differential is a string, one whose differential is null,
\* an object without properties
InvalidTexts ==
  { NullText,
    EntryText([RundeA EXCEPT !.slope = Undefined]),
    EntryText([RundeB EXCEPT !.differential = Str(<<"1", "8">>)]),
    EntryText([RundeA EXCEPT !.differential = Null]),
    ObjText(<<>>) }

ItemTexts == {EntryText(r) : r \in {RundeA, RundeB}} \cup InvalidTexts

SeqsUpTo(S, n) == UNION {[1..m -> S] : m \in 0..n}

StoreTexts ==
  {Absent, NotJson, NonArray} \cup {ArrayText(l) : l \in SeqsUpTo(ItemTexts, MaxItems)}

InitStore ==
  /\ store \in StoreTexts
  /\ full \in BOOLEAN
  /\ AppIdle
  /\ probe \in {Call("ladeRunden", <<>>)}
               \cup {Call("speichereRunden", l) : l \in SeqsUpTo(ValidRounds, MaxItems)}

CallLoad ==
  /\ probe.fn = "ladeRunden" /\ ~probe.done
  /\ Return(StorageService_ladeRunden(store))

CallSave ==
  /\ probe.fn = "speichereRunden" /\ ~probe.done
  /\ LET r == StorageService_speichereRunden(probe.in, store, full)
     IN /\ store' = r.store
        /\ probe' = [probe EXCEPT !.done = TRUE, !.out = r]
  /\ UNCHANGED <<full, env, now, ui, last>>

\* load() after the save
LoadAfterSave ==
  /\ probe.fn = "speichereRunden" /\ probe.done /\ ~probe.more
  /\ probe' = [probe EXCEPT !.more = TRUE, !.prev = StorageService_ladeRunden(store)]
  /\ UNCHANGED appVars

NextStore == CallLoad \/ CallSave \/ LoadAfterSave

SpecStore == InitStore /\ [][NextStore]_vars

\* the structural check of C5 on a parsed entry: an object with all six
\* fields whose differential is a number that is not NaN
StructurallyValid(e) ==
  /\ e.t = "obj"
  /\ \A f \in {"id", "date", "score", "courseRating", "slope", "differential"} :
       e[f] # Undefined
  /\ e.differential.k = "num"

\* C5: load() returns exactly those entries of the persisted array that
\* pass the structural check, in their original relative order and
\* unmodified; every other entry is dropped.
C5_LoadFiltersInvalid ==
  (probe.fn = "ladeRunden" /\ probe.done /\ store.kind = "array")
    => probe.out = SelectSeq(JSONparse(store), StructurallyValid)

\* C5's witness: a load of a persisted array that holds an incomplete
\* round in front of a valid one has returned only the valid one
C5_Witness ==
  /\ probe.fn = "ladeRunden" /\ probe.done
  /\ store = ArrayText(<<EntryText([RundeA EXCEPT !.slope = Undefined]), EntryText(RundeB)>>)
  /\ probe.out = <<RundeB>>

\* C6: for every sequence of valid round records, a successful
\* save(rounds) followed by load() returns the same rounds in the same
\* order.
C6_SaveLoadRoundTrip ==
  (probe.fn = "speichereRunden" /\ probe.done /\ probe.out.success
     /\ probe.more)
    => probe.prev = probe.in

\* C6's witness: two rounds, one with a fractional course rating and a
\* negative differential, were saved and loaded
C6_Witness ==
  /\ probe.fn = "speichereRunden" /\ probe.done /\ probe.out.success
  /\ probe.more
  /\ probe.in = <<RundeB, RundeA>>
  /\ probe.prev = probe.in

-----------------------------------------------------------------------------
(* ValidationService.validiereDatum (32-56).  new Date(text) of a text     *)
(* YYYY-MM-DDT00:00:00 is local midnight of that day; it is invalid for a  *)
(* month outside 01-12 and a day outside 01-31.  A day 29-31 that its      *)
(* month does not have is read differently by different engines: as the   *)
(* day that many days into the next month, or as no date.  rollover tells  *)
(* which.  A date is <<year, month, day>>.                                 *)

RECURSIVE TrimEnd(_)
TrimEnd(s) ==
  IF s # <<>> /\ s[Len(s)] = " " THEN TrimEnd(SubSeq(s, 1, Len(s) - 1)) ELSE s

\* String.prototype.trim on the characters of the model
trim(s) == TrimEnd(SkipSpaces(s))

\* /^\d{4}-\d{2}-\d{2}$/.test(s)
regex_test(s) ==
  /\ Len(s) = 10
  /\ \A i \in 1..10 : IF i \in {5, 8} THEN s[i] = "-" ELSE IsDigit(s[i])

DaysInMonth(y, m) ==
  IF m = 2 THEN (IF (y % 4 = 0 /\ y % 100 # 0) \/ y % 400 = 0 THEN 29 ELSE 28)
  ELSE IF m \in {4, 6, 9, 11} THEN 30
  ELSE 31

InvalidDate == <<0, 0, 0>>

\* new Date(trimmed + "T00:00:00") for a text that passed the regex
dateObj(trimmed, rollover) ==
  LET y == DigitsValue(SubSeq(trimmed, 1, 4))
      m == DigitsValue(SubSeq(trimmed, 6, 7))
      d == DigitsValue(SubSeq(trimmed, 9, 10))
  IN IF m \notin 1..12 \/ d \notin 1..31 THEN InvalidDate
     ELSE IF d <= DaysInMonth(y, m) THEN <<y, m, d>>
     ELSE IF rollover THEN <<y, m + 1, d - DaysInMonth(y, m)>>
     ELSE InvalidDate

\* new Date() with setHours(0, 0, 0, 0): the day the model runs on
heute == <<2026, 2, 7>>

\* a > b on dates
DateGt(a, b) ==
  \/ a[1] > b[1]
  \/ a[1] = b[1] /\ a[2] > b[2]
  \/ a[1] = b[1] /\ a[2] = b[2] /\ a[3] > b[3]

validiereDatum(datum, rollover) ==
  IF datum.k # "string" \/ datum.s = <<>>
    THEN [valid |-> FALSE, error |-> "Bitte ein gueltiges Datum angeben."]
  ELSE
    The({IF trimmed = <<>>
           THEN [valid |-> FALSE, error |-> "Bitte ein Datum angeben."]
         ELSE IF ~regex_test(trimmed)
           THEN [valid |-> FALSE,
                 error |-> "Ungueltiges Datumsformat. Bitte YYYY-MM-DD verwenden."]
         ELSE IF dateObj(trimmed, rollover) = InvalidDate
           THEN [valid |-> FALSE, error |-> "Ungueltiges Datum."]
         ELSE IF DateGt(dateObj(trimmed, rollover), heute)
           THEN [valid |-> FALSE, error |-> "Das Datum darf nicht in der Zukunft liegen."]
         ELSE [valid |-> TRUE, error |-> ""]
           : trimmed \in {trim(datum.s)}})

\* the readings of the day of datum that engines have: both where they
\* differ on it
Engines(datum) ==
  IF regex_test(trim(datum)) /\ dateObj(trim(datum), TRUE) # dateObj(trim(datum), FALSE)
    THEN BOOLEAN
  ELSE {FALSE}

-----------------------------------------------------------------------------
(* The display: App.aktualisiereUI (531-603) and the earlier block's       *)
(* rendereRundenListe and aktualisiereHandicap (711-782).  Every date of   *)
(* the model's stores is a string written with digits and "-", every       *)
(* differential a number or null.                                          *)

\* the characters of the dates in the order localeCompare gives them
DateChars == <<"-">> \o DigitChars

CharRank(c) == CHOOSE i \in 1..Len(DateChars) : DateChars[i] = c

\* a.localeCompare(b): negative, 0 or positive
RECURSIVE localeCompare(_, _)
localeCompare(a, b) ==
  IF a = <<>> THEN (IF b = <<>> THEN 0 ELSE -1)
  ELSE IF b = <<>> THEN 1
  ELSE IF a[1] = b[1] THEN localeCompare(Tail(a), Tail(b))
  ELSE IF CharRank(a[1]) < CharRank(b[1]) THEN -1
  ELSE 1

\* runden.slice().sort(function (a, b) { return
\* b.date.localeCompare(a.date); }): latest date first, stable
RECURSIVE neuesteZuerst(_)
neuesteZuerst(runden) ==
  IF runden = <<>> THEN <<>>
  ELSE LET rest == neuesteZuerst(SubSeq(runden, 1, Len(runden) - 1))
           r == runden[Len(runden)]
           ge == {i \in 1..Len(rest) : localeCompare(rest[i].date.s, r.date.s) >= 0}
           p == IF ge = {} THEN 0 ELSE CHOOSE i \in ge : \A j \in ge : j <= i
       IN SubSeq(rest, 1, p) \o <<r>> \o SubSeq(rest, p + 1, Len(rest))

\* the text "—" shown for no handicap
Strich == <<"EM DASH">>

\* what one handler works on: the persisted text, #handicap-wert, the
\* cards (who rendered them, the identifier behind each delete button),
\* the saves made so far in this event and whether the handler threw
Welt(text, anzeige) ==
  [store |-> text, wert |-> anzeige.wert, von |-> anzeige.von, ids |-> anzeige.ids,
   saves |-> <<>>, threw |-> FALSE]

\* App.aktualisiereUI: aktualisiereHandicap, then rendereRundenListe
App_aktualisiereUI(w) ==
  The({The({[w EXCEPT !.wert = IF handicap.k = "null" THEN Strich
                               ELSE NumberToString(handicap),
                      !.von = "App",
                      !.ids = [i \in 1..Len(runden) |-> runden[i].id],
                      !.threw = FALSE]
              : handicap \in {berechneHandicapIndex(runden)}})
         : runden \in {neuesteZuerst(StorageService_ladeRunden(w.store))}})

\* an element that is null: reading a property of it throws a TypeError
HatNull(runden) == \E i \in 1..Len(runden) : runden[i].t # "obj"

\* the earlier rendereRundenListe: the list is emptied, then the sort or
\* the first card throws when an element is null
rendereRundenListe(w) ==
  The({IF HatNull(runden) THEN [w EXCEPT !.von = "legacy", !.ids = <<>>, !.threw = TRUE]
       ELSE The({[w EXCEPT !.von = "legacy",
                           !.ids = [i \in 1..Len(geordnet) |-> geordnet[i].id],
                           !.threw = FALSE]
                   : geordnet \in {neuesteZuerst(runden)}})
         : runden \in {ladeRunden(w.store)}})

\* the earlier berechneHandicap with 0 for no rounds
berechneHandicap_ZeroForNone(runden) ==
  IF Len(runden) = 0 THEN Num(0, 0)
  ELSE berechneHandicapIndex([i \in 1..Len(runden) |->
                                [runden[i] EXCEPT !.differential = ToNumber(@)]])

\* the earlier berechneHandicap: the arithmetic reads null as 0
berechneHandicap(runden) ==
  berechneHandicapIndex([i \in 1..Len(runden) |->
                           [runden[i] EXCEPT !.differential = ToNumber(@)]])

\* the earlier aktualisiereHandicap
aktualisiereHandicap(w) ==
  The({IF HatNull(runden) THEN [w EXCEPT !.threw = TRUE]
       ELSE The({[w EXCEPT !.wert = IF h.k = "null" THEN Strich ELSE NumberToString(h),
                           !.threw = FALSE]
                   : h \in {berechneHandicap(neuesteZuerst(runden))}})
         : runden \in {ladeRunden(w.store)}})

\* rendereRundenListe(); aktualisiereHandicap(); as every function of the
\* earlier block ends
Refresh(w) ==
  The({IF w1.threw THEN w1 ELSE aktualisiereHandicap(w1)
         : w1 \in {rendereRundenListe(w)}})

-----------------------------------------------------------------------------
(* The handlers.  in is what the four inputs of the form hold, each a      *)
(* sequence of characters; t is what Date.now() returns to the handler.    *)

\* one call of a save, for the record of the action
Saved(by, erg, before, isFull) ==
  [by |-> by, full |-> isFull, threw |-> erg.threw, success |-> erg.success,
   before |-> before, after |-> erg.store]

\* runden.filter(function (r) { return r.id !== id; }) with the test
\* turned round
filter_Equal(runden, id) == SelectSeq(runden, LAMBDA r : r.id = id)

\* runden.filter(function (r) { return r.id !== id; })
filter(runden, id) == SelectSeq(runden, LAMBDA r : r.id # id)

\* the world after a handler's save: the text held, the save recorded
NachSpeichern(w, by, erg, isFull, threw) ==
  [w EXCEPT !.store = erg.store,
            !.saves = Append(@, Saved(by, erg, w.store, isFull)),
            !.threw = threw]

\* App.handleSubmit (420-494)
App_handleSubmit(w, in, t, isFull, rollover) ==
  The({IF ~datumVal.valid THEN [w EXCEPT !.threw = FALSE]
       ELSE IF ~scoreVal.valid THEN [w EXCEPT !.threw = FALSE]
       ELSE IF ~crVal.valid THEN [w EXCEPT !.threw = FALSE]
       ELSE IF ~slopeVal.valid THEN [w EXCEPT !.threw = FALSE]
       ELSE
         LET differential ==
               berechneScoreDifferential(scoreVal.value, crVal.value, slopeVal.value)
             neueRunde == Runde(Str(DigitsOf(t)), Str(trim(in.datum)), scoreVal.value,
                                crVal.value, slopeVal.value, differential)
             runden == <<neueRunde>> \o StorageService_ladeRunden(w.store)
         IN The({IF ~speicherErgebnis.success
                   THEN NachSpeichern(w, "App.handleSubmit", speicherErgebnis,
                                      isFull, FALSE)
                 ELSE App_aktualisiereUI(
                        NachSpeichern(w, "App.handleSubmit", speicherErgebnis,
                                      isFull, FALSE))
                   : speicherErgebnis \in
                       {StorageService_speichereRunden(runden, w.store, isFull)}})
         : datumVal \in {validiereDatum(Str(in.datum), rollover)},
           scoreVal \in {validiereScore(Str(in.score))},
           crVal \in {validiereCourseRating(Str(in.courseRating))},
           slopeVal \in {validiereSlope(Str(in.slope))}})

\* the earlier handleSubmit (836-875)
handleSubmit(w, in, t, isFull) ==
  The({IF datum = <<>> THEN [w EXCEPT !.threw = FALSE]
       ELSE IF score.k = "nan" \/ courseRating.k = "nan" \/ slope.k = "nan"
         THEN [w EXCEPT !.threw = FALSE]
       ELSE IF NumLe(slope, Num(0, 0)) THEN [w EXCEPT !.threw = FALSE]
       ELSE
         LET differential == berechneScoreDifferential(score, courseRating, slope)
             neueRunde == Runde(Str(DigitsOf(t)), Str(datum), score, courseRating,
                                slope, differential)
             runden == <<neueRunde>> \o ladeRunden(w.store)
         IN The({IF erg.threw
                   THEN NachSpeichern(w, "handleSubmit", erg, isFull, erg.threw)
                 ELSE Refresh(NachSpeichern(w, "handleSubmit", erg, isFull, erg.threw))
                   : erg \in {speichereRunden(runden, w.store, isFull)}})
         : datum \in {trim(in.datum)},
           score \in {parseFloat(in.score)},
           courseRating \in {parseFloat(in.courseRating)},
           slope \in {parseFloat(in.slope)}})

\* App.loescheRunde (516-526)
App_loescheRunde(w, id, isFull) ==
  LET runden == filter(StorageService_ladeRunden(w.store), id)
  IN The({IF ~speicherErgebnis.success
            THEN NachSpeichern(w, "App.loescheRunde", speicherErgebnis, isFull, FALSE)
          ELSE App_aktualisiereUI(
                 NachSpeichern(w, "App.loescheRunde", speicherErgebnis, isFull, FALSE))
            : speicherErgebnis \in
                {StorageService_speichereRunden(runden, w.store, isFull)}})

\* the earlier rundeLoeschen (787-794)
rundeLoeschen(w, id, isFull) ==
  The({IF HatNull(geladen) THEN [w EXCEPT !.threw = TRUE]
       ELSE
         LET runden == filter(geladen, id)
         IN The({IF erg.threw
                   THEN NachSpeichern(w, "rundeLoeschen", erg, isFull, erg.threw)
                 ELSE Refresh(NachSpeichern(w, "rundeLoeschen", erg, isFull, erg.threw))
                   : erg \in {speichereRunden(runden, w.store, isFull)}})
         : geladen \in {ladeRunden(w.store)}})

\* App.handleAlleLoeschen without the confirm() test
App_handleAlleLoeschen_NoConfirm(w, ok) ==
  IF Len(StorageService_ladeRunden(w.store)) = 0 THEN [w EXCEPT !.threw = FALSE]
  ELSE App_aktualisiereUI([w EXCEPT !.store = StorageService_loescheAlle(w.store).store])

\* App.handleAlleLoeschen (499-510); ok is the answer to confirm()
App_handleAlleLoeschen(w, ok) ==
  IF Len(StorageService_ladeRunden(w.store)) = 0 THEN [w EXCEPT !.threw = FALSE]
  ELSE IF ~ok THEN [w EXCEPT !.threw = FALSE]
  ELSE App_aktualisiereUI([w EXCEPT !.store = StorageService_loescheAlle(w.store).store])

\* the earlier alleLoeschen (799-806)
alleLoeschen(w, ok, isFull) ==
  IF Len(ladeRunden(w.store)) = 0 THEN [w EXCEPT !.threw = FALSE]
  ELSE IF ~ok THEN [w EXCEPT !.threw = FALSE]
  ELSE The({IF erg.threw
              THEN NachSpeichern(w, "alleLoeschen", erg, isFull, erg.threw)
            ELSE Refresh(NachSpeichern(w, "alleLoeschen", erg, isFull, erg.threw))
              : erg \in {speichereRunden(<<>>, w.store, isFull)}})

-----------------------------------------------------------------------------
(* The app.  The page loads script.js in one of two ways: "ready", the    *)
(* document is parsed when the script runs (readyState is not "loading":   *)
(* App.init runs at once, line 616, then the earlier block); "body", the    *)
(* script stands at the end of the body (the earlier block runs first,     *)
(* App.init at DOMContentLoaded, line 612).  The earlier block registers  *)
(* its listeners (881-882) only if its first rendering did not throw.      *)
(* The listeners of one event run in the order they were registered; an    *)
(* exception in one does not keep the next from running.  One user action  *)
(* with all its listeners is one step.  The clock counts the milliseconds  *)
(* from the opening of the page, up to MaxClock.                           *)

MaxClock == 2

Pages == {"ready", "body"}

\* the texts the store holds when the page is opened
StartTexts ==
  { Absent, NotJson, NonArray,
    ArrayText(<<EntryText(RundeA), EntryText([RundeB EXCEPT !.differential = Null])>>),
    ArrayText(<<NullText, EntryText(RundeB)>>) }

Eingabe ==
  [datum |-> <<"2", "0", "2", "6", "-", "0", "1", "-", "1", "5">>,
   score |-> <<"9", "0">>, courseRating |-> <<"7", "2">>,
   slope |-> <<"1", "1", "3">>]

\* what the user submits: Eingabe, or Eingabe with one input changed (an
\* earlier day, no date, a score above 200, slope 0)
Eingaben ==
  { Eingabe,
    [Eingabe EXCEPT !.datum = <<"2", "0", "2", "5", "-", "1", "2", "-", "3", "1">>],
    [Eingabe EXCEPT !.datum = <<>>],
    [Eingabe EXCEPT !.score = <<"2", "5", "0">>],
    [Eingabe EXCEPT !.slope = <<"0">>] }

\* the state after both blocks have run on page with text in the store
Geladen(page, text) ==
  LET w0 == Welt(text, [wert |-> <<>>, von |-> "", ids |-> <<>>])
  IN IF page = "ready" THEN Refresh(App_aktualisiereUI(w0))
     ELSE App_aktualisiereUI(Refresh(w0))

\* form.addEventListener("submit", ...) at 408 and at 881, in the order
\* of the calls; the listeners of #alle-loeschen (409, 882) likewise
Listeners(page, text) ==
  IF page = "ready"
    THEN <<"App">> \o (IF Geladen(page, text).threw THEN <<>> ELSE <<"legacy">>)
  ELSE (IF Refresh(Welt(text, [wert |-> <<>>, von |-> "", ids |-> <<>>])).threw
          THEN <<>> ELSE <<"legacy">>) \o <<"App">>

Anzeige(w) == [wert |-> w.wert, von |-> w.von, ids |-> w.ids]

Init ==
  /\ full \in BOOLEAN
  /\ now = 0
  /\ \E page \in Pages, text \in StartTexts :
       /\ store = text
       /\ env = [page |-> page, start |-> text, listeners |-> Listeners(page, text)]
       /\ ui = Anzeige(Geladen(page, text))
  /\ last = [op |-> "", in |-> <<>>, before |-> store, saves |-> <<>>]
  /\ probe = Call("", <<>>)

\* the end of a user action
Finish(w, op, in) ==
  /\ store' = w.store
  /\ ui' = Anzeige(w)
  /\ last' = [op |-> op, in |-> in, before |-> store, saves |-> w.saves]

\* the submit listener h
OnSubmit(h, w, in, t, rollover) ==
  IF h = "App" THEN App_handleSubmit(w, in, t, full, rollover)
  ELSE handleSubmit(w, in, t, full)

\* the user submits the form: the first listener reads the clock a
\* millisecond after the last reading that made an identifier, the second
\* listener d milliseconds after the first; on a day that engines read
\* differently the engine is either
Submit(in) ==
  /\ now < MaxClock
  /\ \E d \in {0, 1} :
       /\ now + 1 + d <= MaxClock
       /\ \E rollover \in Engines(in.datum) :
          \E w1 \in {OnSubmit(env.listeners[1], Welt(store, ui), in, now + 1, rollover)} :
          \E w2 \in {IF Len(env.listeners) > 1
                        THEN OnSubmit(env.listeners[2], w1, in, now + 1 + d, rollover)
                        ELSE w1} :
            /\ d = 1 => Len(w2.saves) = 2
            /\ now' = IF Len(w2.saves) = 0 THEN now ELSE now + 1 + d
            /\ Finish(w2, "submit", in)
  /\ UNCHANGED <<full, env, probe>>

\* the user clicks the delete button of card i: the listener is the one
\* the block that rendered the card gave it (581-583, 768-770)
DeleteClick(i) ==
  /\ i \in 1..Len(ui.ids)
  /\ \E w \in {IF ui.von = "App"
                  THEN App_loescheRunde(Welt(store, ui), ui.ids[i], full)
                  ELSE rundeLoeschen(Welt(store, ui), ui.ids[i], full)} :
       Finish(w, "delete", ui.ids[i])
  /\ UNCHANGED <<full, env, now, probe>>

\* the click listener h of #alle-loeschen
OnDeleteAll(h, w, ok) ==
  IF h = "App" THEN App_handleAlleLoeschen(w, ok) ELSE alleLoeschen(w, ok, full)

\* the user clicks #alle-loeschen; ok1 and ok2 answer the confirm() of
\* the first and of the second listener
DeleteAllClick(ok1, ok2) ==
  /\ \E w1 \in {OnDeleteAll(env.listeners[1], Welt(store, ui), ok1)} :
     \E w2 \in {IF Len(env.listeners) > 1
                   THEN OnDeleteAll(env.listeners[2], w1, ok2)
                   ELSE w1} :
       Finish(w2, "deleteAll", <<ok1, ok2>>)
  /\ UNCHANGED <<full, env, now, probe>>

\* other data of the origin fills the quota up, or frees it
QuotaChange ==
  /\ full' = ~full
  /\ UNCHANGED <<store, env, now, ui, last, probe>>

Next ==
  \/ \E in \in Eingaben : Submit(in)
  \/ \E i \in 1..Len(ui.ids) : DeleteClick(i)
  \/ \E ok1, ok2 \in BOOLEAN : DeleteAllClick(ok1, ok2)
  \/ QuotaChange

Spec == Init /\ [][Next]_vars

-----------------------------------------------------------------------------
(* The user actions.  last holds the action that was last taken: op, what  *)
(* it was given (in), the persisted text before it and every save it       *)
(* made.                                                                   *)

\* the four checks of App.handleSubmit on what the form holds
EingabeGueltig(in, rollover) ==
  /\ validiereDatum(Str(in.datum), rollover).valid
  /\ validiereScore(Str(in.score)).valid
  /\ validiereCourseRating(Str(in.courseRating)).valid
  /\ validiereSlope(Str(in.slope)).valid

\* C3: a form submission whose input fails a validation rule (date, score
\* in [1,200], course rating in [50,80], slope in [55,155]) creates no
\* round: after all listeners of the submit have run, the persisted list
\* of rounds is what it was before the submit.
C3_InvalidSubmitStoresNothing ==
  (last.op = "submit" /\ \A r \in BOOLEAN : ~EingabeGueltig(last.in, r))
    => ladeRunden(store) = ladeRunden(last.before)

\* C4: in every state reached by submits, deletes and delete-alls from an
\* empty store, no two persisted rounds have the same identifier.
C4_IdentifiersUnique ==
  ladeRunden(env.start) = <<>>
    => \A i, j \in 1..Len(ladeRunden(store)) :
         i # j => ladeRunden(store)[i].id # ladeRunden(store)[j].id

\* C7: every save made while the store is full returns a failure result,
\* does not throw, and leaves the persisted text as it was.
C7_FullSaveFailsWithoutThrowing ==
  \A i \in 1..Len(last.saves) :
    last.saves[i].full
      => /\ ~last.saves[i].threw
         /\ ~last.saves[i].success
         /\ last.saves[i].after = last.saves[i].before

\* a save of the last action wrote the store
Wrote == \E i \in 1..Len(last.saves) : last.saves[i].success

\* C8: a delete by identifier whose save succeeds removes exactly the
\* persisted rounds with that identifier, every other round stays with
\* its six fields and in its order (a delete that saves nothing leaves
\* all rounds); a submit only puts rounds in front of the persisted ones,
\* a delete-all leaves all rounds or none, loading the page changes
\* nothing: no action changes a field of a round that stays stored.
C8_DeleteRemovesExactlyThatId ==
  LET vorher == StorageService_ladeRunden(last.before)
      nachher == StorageService_ladeRunden(store)
      k == Len(nachher) - Len(vorher)
  IN /\ last.op = "delete"
          => nachher = IF Wrote THEN SelectSeq(vorher, LAMBDA r : r.id # last.in)
                       ELSE vorher
     /\ last.op = "submit"
          => k \in 0..2 /\ SubSeq(nachher, k + 1, Len(nachher)) = vorher
     /\ last.op = "deleteAll" => nachher \in {<<>>, vorher}
     /\ last.op = "" => store = env.start

\* C8's witness: a delete has removed a round from the store and has left
\* another one in it
C8_Witness ==
  /\ last.op = "delete" /\ Wrote
  /\ Len(StorageService_ladeRunden(store)) >= 1
  /\ Len(StorageService_ladeRunden(store)) < Len(StorageService_ladeRunden(last.before))
  /\ \E i \in 1..Len(StorageService_ladeRunden(last.before)) :
       StorageService_ladeRunden(last.before)[i].id = last.in

-----------------------------------------------------------------------------
(* ValidationService.validiereDatum, one call at a time: on the texts      *)
(* year-month-day of DatumYears, DatumMonths and DatumDays, on texts that  *)
(* are not of that form and on values that are no strings.  Where engines  *)
(* read new Date(text) differently, the call takes either reading.         *)

DatumYears == {<<"2", "0", "2", "4">>, <<"2", "0", "2", "5">>, <<"2", "0", "2", "6">>}

DatumMonths == {<<"0", "0">>, <<"0", "1">>, <<"0", "2">>, <<"0", "4">>, <<"1", "2">>,
                <<"1", "3">>}

DatumDays == {<<"0", "0">>, <<"0", "1">>, <<"0", "7">>, <<"0", "8">>, <<"2", "8">>,
              <<"2", "9">>, <<"3", "0">>, <<"3", "1">>, <<"3", "2">>}

Heute10 == <<"2", "0", "2", "6", "-", "0", "2", "-", "0", "7">>

OtherTexts ==
  {<<>>, <<" ">>, <<" ", " ">>,
   <<" ">> \o Heute10, Heute10 \o <<" ">>, <<" ">> \o Heute10 \o <<" ", " ">>,
   Heute10 \o <<"T">>, <<"x">> \o Heute10,
   <<"2", "0", "2", "6", "/", "0", "2", "/", "0", "7">>,
   <<"2", "6", "-", "0", "2", "-", "0", "7">>,
   <<"2", "0", "2", "6", "-", "2", "-", "7">>,
   <<"0", "7", "-", "0", "2", "-", "2", "0", "2", "6">>,
   <<"2", "0", "2", "6", "-", "0", "2", "-", "x", "7">>,
   <<"2", "0", "2", "6", " ", "0", "2", "-", "0", "7">>}

DatumInputs ==
  {Str(y \o <<"-">> \o m \o <<"-">> \o d) :
     y \in DatumYears, m \in DatumMonths, d \in DatumDays}
    \cup {Str(s) : s \in OtherTexts}
    \cup {Null, Undefined, Num(20260207, 0)}

InitDatum ==
  /\ StoreIdle
  /\ probe \in {Call("validiereDatum", in) : in \in DatumInputs}

CallDatum ==
  /\ probe.fn = "validiereDatum" /\ ~probe.done
  /\ \E rollover \in Engines(probe.in.s) :
       Return(validiereDatum(probe.in, rollover))

NextDatum == CallDatum

SpecDatum == InitDatum /\ [][NextDatum]_vars

\* s is YYYY-MM-DD and names a day of the calendar
RealDate(s) ==
  /\ regex_test(s)
  /\ DigitsValue(SubSeq(s, 6, 7)) \in 1..12
  /\ DigitsValue(SubSeq(s, 9, 10))
       \in 1..DaysInMonth(DigitsValue(SubSeq(s, 1, 4)), DigitsValue(SubSeq(s, 6, 7)))

\* the day s names
DayOf(s) ==
  <<DigitsValue(SubSeq(s, 1, 4)), DigitsValue(SubSeq(s, 6, 7)),
    DigitsValue(SubSeq(s, 9, 10))>>

FormatErrors ==
  {"Bitte ein gueltiges Datum angeben.", "Bitte ein Datum angeben.",
   "Ungueltiges Datumsformat. Bitte YYYY-MM-DD verwenden.", "Ungueltiges Datum."}

RangeError == "Das Datum darf nicht in der Zukunft liegen."

\* validate-date passes only texts that, trimmed, are YYYY-MM-DD and a day
\* of the calendar not after today, and refuses every other input
C11_OnlyRealDatesPass ==
  (probe.fn = "validiereDatum" /\ probe.done)
    => (probe.out.valid
          <=> /\ probe.in.k = "string"
              /\ RealDate(trim(probe.in.s))
              /\ ~DateGt(DayOf(trim(probe.in.s)), heute))

\* C11: validate-date fails with a format error unless the input is exactly
\* YYYY-MM-DD and a real calendar date, fails with a range error when the
\* date is after today, accepts today and every earlier real date, and on
\* success returns the normalized trimmed date string.
C11_ValidateDate ==
  (probe.fn = "validiereDatum" /\ probe.done)
    => LET s == trim(probe.in.s)
           real == probe.in.k = "string" /\ RealDate(s)
       IN /\ ~real => (~probe.out.valid /\ probe.out.error \in FormatErrors)
          /\ (real /\ DateGt(DayOf(s), heute))
               => (~probe.out.valid /\ probe.out.error = RangeError)
          /\ (real /\ ~DateGt(DayOf(s), heute))
               => /\ probe.out.valid
                  /\ "value" \in DOMAIN probe.out
                  /\ probe.out.value = Str(s)

-----------------------------------------------------------------------------
(* Claims about a persisted text that is no JSON or no array, under Spec   *)

Corrupt(text) == text.kind \in {"invalid", "nonarray"}

\* the saves of the last action that wrote
Written == {i \in 1..Len(last.saves) : last.saves[i].success}

\* C12: when the persisted payload is unparseable or is not an array, load()
\* returns the empty sequence without raising an error to the caller (the
\* start-up of either block runs to its end), the handicap is shown as
\* undefined and no round is listed, and the history starts again from
\* empty: the payload is kept until the next save that succeeds, which
\* writes an array holding nothing but the rounds of that submit.
C12_CorruptPayloadIsEmptyHistory ==
  /\ Corrupt(store)
       => /\ StorageService_ladeRunden(store) = <<>>
          /\ ladeRunden(store) = <<>>
          /\ ui.wert = Strich
          /\ ui.ids = <<>>
  /\ Corrupt(env.start) => Len(env.listeners) = 2
  /\ (Corrupt(last.before) /\ Written = {})
       => store = last.before
  /\ (Corrupt(last.before) /\ Written # {})
       => /\ last.op = "submit"
          /\ store.kind = "array"
          /\ Len(ladeRunden(store)) = Cardinality(Written)
          /\ \A i \in 1..Len(ladeRunden(store)) :
               /\ ladeRunden(store)[i].t = "obj"
               /\ ladeRunden(store)[i].date = Str(trim(last.in.datum))

\* C12's witness: a submit on an unparseable payload has written
C12_Witness ==
  /\ last.op = "submit"
  /\ last.before = NotJson
  /\ Written # {}
  /\ ui.wert # Strich

-----------------------------------------------------------------------------
(* WHSService.berechneHandicapIndex and the earlier berechneHandicap, one  *)
(* call at a time, on the lists of HeadLists (the empty list among them)   *)
(* and on lists whose differentials are all 0.                             *)

ZeroLists == { [i \in 1..n |-> RundeMit(i, 0)] : n \in 1..BEST_ROUNDS_COUNT + 1 }

InitIndex ==
  /\ StoreIdle
  /\ probe \in {Call(fn, in) : fn \in {"berechneHandicapIndex", "berechneHandicap"},
                              in \in HeadLists \cup ZeroLists}

CallIndex ==
  /\ probe.fn = "berechneHandicapIndex" /\ ~probe.done
  /\ Return(berechneHandicapIndex(probe.in))

CallEarlierIndex ==
  /\ probe.fn = "berechneHandicap" /\ ~probe.done
  /\ Return(berechneHandicap(probe.in))

NextIndex == CallIndex \/ CallEarlierIndex

SpecIndex == InitIndex /\ [][NextIndex]_vars

\* C13: handicap-index of zero rounds is the explicit no-handicap result
\* (null), never the number 0, and every non-empty list of rounds yields a
\* numeric index.
C13_NoRoundsNoHandicap ==
  (probe.fn \in {"berechneHandicapIndex", "berechneHandicap"} /\ probe.done)
    => /\ Len(probe.in) = 0 => (probe.out = Null /\ probe.out.k # "num")
       /\ Len(probe.in) >= 1 => probe.out.k = "num"

\* C13's witness: the earlier berechneHandicap has returned null for no
\* rounds
C13_Witness ==
  /\ probe.fn = "berechneHandicap" /\ probe.done
  /\ probe.in = <<>>
  /\ probe.out = Null

-----------------------------------------------------------------------------
(* Claims about delete-all, under Spec                                     *)

\* the listener h of #alle-loeschen is registered and the answer to its
\* confirm() was yes
Confirmed(h) ==
  \E i \in 1..Len(env.listeners) : env.listeners[i] = h /\ last.in[i]

\* C14: after a confirmed delete-all that succeeds (removeItem by
\* App.handleAlleLoeschen, or the earlier alleLoeschen's save of [] when
\* it is written), load() returns the empty sequence whatever the store
\* held before; a delete-all that the user does not confirm, or that is
\* issued when no rounds are stored (the listener's own load() finds none),
\* leaves the store unchanged.
C14_DeleteAll ==
  last.op = "deleteAll"
    => /\ (/\ StorageService_ladeRunden(last.before) # <<>>
           /\ Confirmed("App") \/ (Confirmed("legacy") /\ Written # {}))
            => /\ StorageService_ladeRunden(store) = <<>>
               /\ ladeRunden(store) = <<>>
       /\ (~Confirmed("App") /\ ~Confirmed("legacy")) => store = last.before
       /\ ladeRunden(last.before) = <<>> => store = last.before
       /\ (StorageService_ladeRunden(last.before) = <<>> /\ ~Confirmed("legacy"))
            => store = last.before
       /\ store \in {last.before, Absent, ArrayText(<<>>)}

\* C14's witness: a confirmed delete-all has emptied a store of two rounds
C14_Witness ==
  /\ last.op = "deleteAll"
  /\ Len(StorageService_ladeRunden(last.before)) = 2
  /\ Confirmed("App") \/ Confirmed("legacy")
  /\ store # last.before
  /\ StorageService_ladeRunden(store) = <<>>
  /\ ui.wert = Strich

-----------------------------------------------------------------------------
(* Claims about what a submit stores, under Spec                           *)

\* the round record a valid submit of in makes, but for its identifier
IstRundeAus(r, in) ==
  /\ r.t = "obj"
  /\ r.date = Str(trim(in.datum))
  /\ r.score = validiereScore(Str(in.score)).value
  /\ r.courseRating = validiereCourseRating(Str(in.courseRating)).value
  /\ r.slope = validiereSlope(Str(in.slope)).value
  /\ r.differential = berechneScoreDifferential(r.score, r.courseRating, r.slope)

\* a submit of valid input adds n rounds at the front when a save succeeds
SubmitAdds(n) ==
  (/\ last.op = "submit"
   /\ \E r \in Engines(last.in.datum) : EingabeGueltig(last.in, r)
   /\ Written # {})
    => LET vorher == StorageService_ladeRunden(last.before)
           nachher == StorageService_ladeRunden(store)
       IN /\ Len(nachher) = Len(vorher) + n
          /\ SubSeq(nachher, n + 1, Len(nachher)) = vorher
          /\ \A i \in 1..n : IstRundeAus(nachher[i], last.in)

\* C15: one form submission with valid input whose save succeeds adds
\* exactly one round record to the persisted list, placed at the front,
\* with the submitted date, score, course rating and slope and with
\* differential equal to differential(score, courseRating, slope); the list
\* grows by exactly 1, counting every submit handler registered on the form.
C15_ValidSubmitAddsOneRound == SubmitAdds(1)

\* the same with one round for each listener of the submit
C15_OneRoundForEachListener == SubmitAdds(Len(env.listeners))

-----------------------------------------------------------------------------
(* Claims about the displayed handicap, under Spec                         *)

\* what #handicap-wert shows for the index h
Shown(h) == IF h.k = "null" THEN Strich ELSE NumberToString(h)

\* the index of the rounds load() returns for text, latest date first
IndexOf(text) == berechneHandicapIndex(neuesteZuerst(StorageService_ladeRunden(text)))

\* C16: after every completed user action (submit, delete-by-identifier,
\* delete-all), whether its save succeeded or failed, the displayed
\* handicap equals handicap-index applied to the rounds currently
\* persisted, ordered by date descending (rounds with equal dates keeping
\* their stored order), and shows the no-handicap placeholder exactly when
\* no valid round is persisted.
C16_DisplayedHandicap ==
  last.op \in {"submit", "delete", "deleteAll"}
    => /\ ui.wert = Shown(IndexOf(store))
       /\ ui.wert = Strich <=> StorageService_ladeRunden(store) = <<>>

\* the same where every element of the persisted array is a round
C16_DisplayedHandicapOfRounds ==
  (/\ last.op \in {"submit", "delete", "deleteAll"}
   /\ StorageService_ladeRunden(store) = ladeRunden(store)
   /\ StorageService_ladeRunden(last.before) = ladeRunden(last.before))
    => /\ ui.wert = Shown(IndexOf(store))
       /\ ui.wert = Strich <=> StorageService_ladeRunden(store) = <<>>

-----------------------------------------------------------------------------
(* Claims about entries of the persisted array that are no rounds, under   *)
(* Spec                                                                    *)

\* every element of the persisted array is a structurally valid round
OnlyValidRounds(text) ==
  text.kind = "array" /\ ladeRunden(text) = StorageService_ladeRunden(text)

\* C17: entries that load() drops as invalid are still present in the store
\* after load() alone (the start-up of the page, which only loads), but are
\* removed from the store by the next successful submit or
\* delete-by-identifier, because those operations save the filtered list
\* back: after such an operation the persisted array contains only
\* structurally valid rounds.
C17_SaveDropsInvalidEntries ==
  /\ last.op = "" => store = env.start
  /\ (last.op \in {"submit", "delete"} /\ Written # {}) => OnlyValidRounds(store)

\* the same for the operations whose last save is one of App.handleSubmit
\* or App.loescheRunde
C17_AppSaveDropsInvalidEntries ==
  /\ last.op = "" => store = env.start
  /\ (/\ last.op \in {"submit", "delete"}
      /\ Written # {}
      /\ \A i \in Written :
           (\A j \in Written : j <= i)
             => last.saves[i].by \in {"App.handleSubmit", "App.loescheRunde"})
       => OnlyValidRounds(store)

====
